---- MODULE Spec2Model ----
(***************************************************************************)
(* A model of the benchmark harness of the DNA pattern-matching project:   *)
(*   bench/comprehensive_benchmark.py  the two sweeps and the analyses     *)
(*   bench/benchmark_runner.py         the older single sweep              *)
(*                                                                         *)
(* Four specifications share the module:                                   *)
(*   Spec          the sweeps (one of the three sweep functions per run),  *)
(*                 the external executable being a nondeterministic        *)
(*                 outcome per invocation;                                 *)
(*   SpecEmbed     the choice of a pattern inside a generated text;        *)
(*   SpecAnalysis  the speedup and complexity analyses and the LaTeX table *)
(*                 over result tables a size sweep can return;             *)
(*   SpecMain      the steps of a full run, main(), and what they leave in *)
(*                 the scratch directory.                                  *)
(***************************************************************************)
EXTENDS Integers, Sequences, FiniteSets, TLC

VARIABLES
    \* ---- the sweeps (Spec)
    mode,          \* which sweep function runs: "size", "plen", "runner"
    pattern_len,   \* benchmark_varying_text_size's parameter
    text_size,     \* benchmark_varying_pattern_length's parameter
    pc,            \* "outer", "inner", "done", "crashed", "idle"
    ci,            \* index of the current sweep value (0 before the first)
    ai,            \* index of the current algorithm in the inner loop
    results,       \* comprehensive_benchmark: algo id -> [xs, times]
    bresults,      \* benchmark_runner: algo id -> list of times
    calls,         \* history: every invocation of the executable, in order
    last,          \* history: the outcome of the latest invocation
    faults,        \* number of off-nominal outcomes so far
    \* ---- pattern embedding (SpecEmbed)
    variant,       \* whose embedding code runs: "size", "plen", "runner"
    seq,           \* the generated text
    req_len,       \* the requested pattern length
    start,         \* the chosen offset
    pattern,       \* the slice taken
    epc,           \* "ready", "embedded", "raised", "invoked", "idle"
    \* ---- analyses (SpecAnalysis)
    aresults,      \* the table handed to the analyses: algo id -> [sizes, times]
    speedups,      \* algo id -> list of [size, num, den] the speedup plot gets
    sp_status,     \* "none", "skipped", "plotted", "error"
    fit_input,     \* algo id -> the points handed to polyfit (<<>>: no fit)
    fit_done,      \* algo id -> whether polyfit was called
    table,         \* algo id -> the time and speedup cells of the LaTeX table
    apc,           \* "speedup", "complexity", "table", "done", "idle"
    \* ---- a full run (SpecMain)
    mpc,           \* main's position: "setup", "make", "size_sweep",
                   \* "plen_sweep", "reports", "cleanup", "rmdir", "message",
                   \* "done", "aborted", "idle"
    mi,            \* index of the current size or report step
    temp_dir,      \* whether TEMP_DIR exists
    temp_files,    \* the sizes whose corpus file is in TEMP_DIR
    pending,       \* cleanup's listing: the files it has yet to remove
    remove_failed, \* history: os.remove raised
    completed      \* "Benchmark Complete!" was printed

sweep_vars == <<mode, pattern_len, text_size, pc, ci, ai, results, bresults,
                calls, last, faults>>
embed_vars == <<variant, seq, req_len, start, pattern, epc>>
analysis_vars == <<aresults, speedups, sp_status, fit_input, fit_done, table, apc>>
main_vars == <<mpc, mi, temp_dir, temp_files, pending, remove_failed, completed>>
vars == <<sweep_vars, embed_vars, analysis_vars, main_vars>>

----------------------------------------------------------------------------
(* Bounds of the model *)

\* Invocations per run whose outcome is anything but "exit 0, nominal time".
MaxFaults == 1
\* How many of the configured sizes a size sweep goes through.
NumSizes == 3
\* Longest generated text of SpecEmbed.
MaxLen == 3
\* How many sizes the tables of SpecAnalysis range over.
NumAnalysisSizes == 3

----------------------------------------------------------------------------
(* Configuration *)

SIZES == <<1000, 5000, 10000, 50000, 100000, 500000, 1000000>>
PATTERN_LENGTHS == <<5, 10, 20, 50, 100>>
\* The keys of ALGORITHMS in the dict's (insertion) order.
ALGORITHMS == <<15, 3, 4, 5, 6, 11, 12>>
NAIVE == 15
SHIFT_OR == 6
SHIFT_OR_MAX == 64
DEFAULT_PATTERN_LEN == 10
DEFAULT_TEXT_SIZE == 100000

\* benchmark_runner.py
R_SIZES == <<10000, 50000, 100000, 500000, 1000000>>
R_ALGORITHMS == <<3, 4, 5, 6, 11, 12>>
PATTERN_LEN == 10

Max(a, b) == IF a >= b THEN a ELSE b
Min(a, b) == IF a <= b THEN a ELSE b

\* The sizes the modelled sweeps go through: the first NumSizes of the list.
SweepSizes == SubSeq(SIZES, 1, Min(NumSizes, Len(SIZES)))
RunnerSizes == SubSeq(R_SIZES, 1, Min(NumSizes, Len(R_SIZES)))

\* The sizes of the tables the analyses are checked on: NumAnalysisSizes
\* consecutive ones from 50000 on, the report's reference size 100000 among them.
AnalysisSizes == SubSeq(SIZES, 4, Min(3 + NumAnalysisSizes, Len(SIZES)))

----------------------------------------------------------------------------
(* Python values: floats, None, a raised ValueError *)

Fin(n) == [k |-> "fin", v |-> n]
NaN == [k |-> "nan", v |-> 0]
PosInf == [k |-> "inf", v |-> 0]
None == [k |-> "None", v |-> 0]
ValueError == [k |-> "ValueError", v |-> 0]

\* x > 0 on floats: false for nan, true for +inf.
GtZero(x) == (x.k = "fin" /\ x.v > 0) \/ x.k = "inf"

\* float(stdout.strip()) on the outputs the model lets the executable print.
ParseFloat(s) ==
    CASE s = "12.0\n" -> Fin(12)
      [] s = "0.0\n"  -> Fin(0)
      [] s = "-5.0\n" -> Fin(-5)
      [] s = "nan\n"  -> NaN
      [] s = "inf\n"  -> PosInf
      [] OTHER        -> ValueError

----------------------------------------------------------------------------
(* The external executable: one nondeterministic outcome per invocation *)

Exit(rc, out) == [kind |-> "exit", rc |-> rc, stdout |-> out]
Timeout == [kind |-> "timeout", rc |-> 0, stdout |-> ""]
SpawnError == [kind |-> "spawn_error", rc |-> 0, stdout |-> ""]
NoOutcome == [kind |-> "none", rc |-> 0, stdout |-> ""]

Nominal == Exit(0, "12.0\n")
OffNominal ==
    {Timeout, SpawnError, Exit(1, "")}
    \cup {Exit(0, s) : s \in {"0.0\n", "-5.0\n", "nan\n", "inf\n", "abc\n", ""}}

\* The outcomes an invocation may have once f off-nominal ones have happened.
Outcomes(f) == {Nominal} \cup (IF f < MaxFaults THEN OffNominal ELSE {})

IsFault(o) == o # Nominal

\* History: whether the run failed (the process did not start, timed out, exited
\* non-zero, or printed something float() rejects).
RunFailed(o) ==
    \/ o.kind \in {"timeout", "spawn_error"}
    \/ o.rc # 0
    \/ o.stdout \notin {"12.0\n", "0.0\n", "-5.0\n", "nan\n", "inf\n"}

\* comprehensive_benchmark.run_algorithm: a float, or None.
run_algorithm(o) ==
    IF o.kind = "timeout" THEN None
    ELSE IF o.kind = "spawn_error" THEN None
    ELSE IF o.rc # 0 THEN None
    ELSE IF ParseFloat(o.stdout) = ValueError THEN None
    ELSE ParseFloat(o.stdout)

----------------------------------------------------------------------------
(* The sweeps of comprehensive_benchmark.py *)

\* ---- benchmark_varying_text_size

EmptySeries == [xs |-> <<>>, times |-> <<>>]
AlgoIds == {ALGORITHMS[i] : i \in 1..Len(ALGORITHMS)}

\* Mutant: the ceiling is off by one.
SkippedFrom64(algo, plen) == algo = SHIFT_OR /\ plen >= SHIFT_OR_MAX

\* "if algo_id == 6 and pattern_len > 64: continue"
Skipped(algo, plen) == algo = SHIFT_OR /\ plen > SHIFT_OR_MAX

\* Mutant: the sweep value is appended whatever the run returned.
RecordValueAlways(res, algo, x, ret) ==
    [res EXCEPT ![algo] = [xs |-> Append(@.xs, x),
                           times |-> IF ret # None THEN Append(@.times, ret)
                                     ELSE @.times]]

\* Mutant: a failed run is recorded with None as its time.
RecordWithMarker(res, algo, x, ret) ==
    [res EXCEPT ![algo] = [xs |-> Append(@.xs, x), times |-> Append(@.times, ret)]]

\* Lines 97-102 / 134-139: both lists grow on a time, nothing on None.
Record(res, algo, x, ret) ==
    IF ret # None
    THEN [res EXCEPT ![algo] = [xs |-> Append(@.xs, x),
                                times |-> Append(@.times, ret)]]
    ELSE res

\* Mutant: a failed run ends the sweep.
AfterRunHaltOnFailure(ret) == IF ret = None THEN "crashed" ELSE "inner"

\* Where the inner loop goes after an invocation returned ret: on, always.
AfterRun(ret) == "inner"

Call(algo, x, plen, ret, failed) ==
    [algo |-> algo, x |-> x, plen |-> plen, ret |-> ret, failed |-> failed]

\* The inner loop's step to the next algorithm, or back to the outer loop.
Advance(n, after) ==
    IF after = "inner" /\ ai = n
    THEN pc' = "outer" /\ ai' = 0
    ELSE pc' = after /\ ai' = ai + 1

\* for size in SIZES: generate the text, write the file, pick the pattern.
TextSizeNext ==
    /\ mode = "size" /\ pc = "outer" /\ ci < Len(SweepSizes)
    /\ ci' = ci + 1
    /\ ai' = 1
    /\ pc' = "inner"
    /\ UNCHANGED <<mode, pattern_len, text_size, results, bresults, calls, last, faults>>
    /\ UNCHANGED <<embed_vars, analysis_vars, main_vars>>

TextSizeSkip ==
    /\ mode = "size" /\ pc = "inner"
    /\ Skipped(ALGORITHMS[ai], pattern_len)
    /\ Advance(Len(ALGORITHMS), "inner")
    /\ UNCHANGED <<mode, pattern_len, text_size, ci, results, bresults, calls, last, faults>>
    /\ UNCHANGED <<embed_vars, analysis_vars, main_vars>>

TextSizeRun ==
    /\ mode = "size" /\ pc = "inner"
    /\ ~Skipped(ALGORITHMS[ai], pattern_len)
    /\ \E o \in Outcomes(faults) :
        LET algo == ALGORITHMS[ai]
            ret == run_algorithm(o)
        IN  /\ results' = Record(results, algo, SweepSizes[ci], ret)
            /\ calls' = Append(calls, Call(algo, SweepSizes[ci], pattern_len, ret, RunFailed(o)))
            /\ last' = o
            /\ faults' = faults + (IF IsFault(o) THEN 1 ELSE 0)
            /\ Advance(Len(ALGORITHMS), AfterRun(ret))
    /\ UNCHANGED <<mode, pattern_len, text_size, ci, bresults>>
    /\ UNCHANGED <<embed_vars, analysis_vars, main_vars>>

TextSizeReturn ==
    /\ mode = "size" /\ pc = "outer" /\ ci = Len(SweepSizes)
    /\ pc' = "done"
    /\ UNCHANGED <<mode, pattern_len, text_size, ci, ai, results, bresults, calls, last, faults>>
    /\ UNCHANGED <<embed_vars, analysis_vars, main_vars>>

\* ---- benchmark_varying_pattern_length

\* for plen in PATTERN_LENGTHS: random.randint(0, text_size - plen) raises
\* ValueError on an empty range, which nothing catches.
PatternLenNext ==
    /\ mode = "plen" /\ pc = "outer" /\ ci < Len(PATTERN_LENGTHS)
    /\ ci' = ci + 1
    /\ IF text_size - PATTERN_LENGTHS[ci + 1] < 0
       THEN pc' = "crashed" /\ ai' = 0
       ELSE pc' = "inner" /\ ai' = 1
    /\ UNCHANGED <<mode, pattern_len, text_size, results, bresults, calls, last, faults>>
    /\ UNCHANGED <<embed_vars, analysis_vars, main_vars>>

PatternLenSkip ==
    /\ mode = "plen" /\ pc = "inner"
    /\ Skipped(ALGORITHMS[ai], PATTERN_LENGTHS[ci])
    /\ Advance(Len(ALGORITHMS), "inner")
    /\ UNCHANGED <<mode, pattern_len, text_size, ci, results, bresults, calls, last, faults>>
    /\ UNCHANGED <<embed_vars, analysis_vars, main_vars>>

PatternLenRun ==
    /\ mode = "plen" /\ pc = "inner"
    /\ ~Skipped(ALGORITHMS[ai], PATTERN_LENGTHS[ci])
    /\ \E o \in Outcomes(faults) :
        LET algo == ALGORITHMS[ai]
            plen == PATTERN_LENGTHS[ci]
            ret == run_algorithm(o)
        IN  /\ results' = Record(results, algo, plen, ret)
            /\ calls' = Append(calls, Call(algo, plen, plen, ret, RunFailed(o)))
            /\ last' = o
            /\ faults' = faults + (IF IsFault(o) THEN 1 ELSE 0)
            /\ Advance(Len(ALGORITHMS), AfterRun(ret))
    /\ UNCHANGED <<mode, pattern_len, text_size, ci, bresults>>
    /\ UNCHANGED <<embed_vars, analysis_vars, main_vars>>

PatternLenReturn ==
    /\ mode = "plen" /\ pc = "outer" /\ ci = Len(PATTERN_LENGTHS)
    /\ pc' = "done"
    /\ UNCHANGED <<mode, pattern_len, text_size, ci, ai, results, bresults, calls, last, faults>>
    /\ UNCHANGED <<embed_vars, analysis_vars, main_vars>>

----------------------------------------------------------------------------
(* The sweep of benchmark_runner.py *)

\* subprocess.run has no timeout here: an invocation cannot time out.
RunnerOutcomes(f) == Outcomes(f) \ {Timeout}

\* Lines 50-70: the time appended to results[algo_name].
runner_time(o) ==
    IF o.kind = "spawn_error" THEN Fin(0)
    ELSE IF o.rc # 0 THEN Fin(0)
    ELSE IF ParseFloat(o.stdout) = ValueError THEN Fin(0)
    ELSE ParseFloat(o.stdout)

RunnerNext ==
    /\ mode = "runner" /\ pc = "outer" /\ ci < Len(RunnerSizes)
    /\ ci' = ci + 1
    /\ ai' = 1
    /\ pc' = "inner"
    /\ UNCHANGED <<mode, pattern_len, text_size, results, bresults, calls, last, faults>>
    /\ UNCHANGED <<embed_vars, analysis_vars, main_vars>>

RunnerRun ==
    /\ mode = "runner" /\ pc = "inner"
    /\ \E o \in RunnerOutcomes(faults) :
        LET algo == R_ALGORITHMS[ai]
            t == runner_time(o)
        IN  /\ bresults' = [bresults EXCEPT ![algo] = Append(@, t)]
            /\ calls' = Append(calls, Call(algo, RunnerSizes[ci], PATTERN_LEN, t, RunFailed(o)))
            /\ last' = o
            /\ faults' = faults + (IF IsFault(o) THEN 1 ELSE 0)
            /\ Advance(Len(R_ALGORITHMS), "inner")
    /\ UNCHANGED <<mode, pattern_len, text_size, ci, results>>
    /\ UNCHANGED <<embed_vars, analysis_vars, main_vars>>

\* The plot and the clean-up follow the loop.
RunnerReturn ==
    /\ mode = "runner" /\ pc = "outer" /\ ci = Len(RunnerSizes)
    /\ pc' = "done"
    /\ UNCHANGED <<mode, pattern_len, text_size, ci, ai, results, bresults, calls, last, faults>>
    /\ UNCHANGED <<embed_vars, analysis_vars, main_vars>>

----------------------------------------------------------------------------
(* Picking a pattern that exists in the text (SpecEmbed) *)

DNA == {"A", "C", "G", "T"}

\* generate_dna(length), for every length from 1 to n.
Texts(n) == UNION {[1..m -> DNA] : m \in 1..n}

\* random.randint(a, b): any integer of a..b; an empty range raises ValueError.
RandInt(a, b) == a..b

\* s[a:b] for 0 <= a <= b: Python cuts the slice at the end of s.
Slice(s, a, b) == SubSeq(s, Min(a, Len(s)) + 1, Min(b, Len(s)))

\* Mutant: the offset is drawn from the whole text.
EmbedStartsWholeText(v, size, plen) == RandInt(0, size)

\* The offsets the code draws from: line 87 (with max(0, .)) and line 124.
EmbedStarts(v, size, plen) ==
    IF v = "size" THEN RandInt(0, Max(0, size - plen))
    ELSE RandInt(0, size - plen)

\* benchmark_varying_text_size, lines 87-88.
TextSizeEmbed ==
    /\ variant = "size" /\ epc = "ready"
    /\ \E st \in EmbedStarts("size", Len(seq), req_len) :
        /\ start' = st
        /\ pattern' = Slice(seq, st, st + req_len)
    /\ epc' = "embedded"
    /\ UNCHANGED <<variant, seq, req_len>>
    /\ UNCHANGED <<sweep_vars, analysis_vars, main_vars>>

\* benchmark_varying_pattern_length, lines 124-125.
PatternLenEmbed ==
    /\ variant = "plen" /\ epc = "ready"
    /\ EmbedStarts("plen", Len(seq), req_len) # {}
    /\ \E st \in EmbedStarts("plen", Len(seq), req_len) :
        /\ start' = st
        /\ pattern' = Slice(seq, st, st + req_len)
    /\ epc' = "embedded"
    /\ UNCHANGED <<variant, seq, req_len>>
    /\ UNCHANGED <<sweep_vars, analysis_vars, main_vars>>

\* randint raises ValueError: the sweep ends with the exception.
PatternLenEmbedRaises ==
    /\ variant = "plen" /\ epc = "ready"
    /\ EmbedStarts("plen", Len(seq), req_len) = {}
    /\ epc' = "raised"
    /\ UNCHANGED <<variant, seq, req_len, start, pattern>>
    /\ UNCHANGED <<sweep_vars, analysis_vars, main_vars>>

\* The inner loop's first pass: algorithm 15 is never skipped, so the
\* executable is run with the pattern (lines 90-95, 127-132).
EmbedInvoke ==
    /\ epc = "embedded"
    /\ ~Skipped(ALGORITHMS[1], req_len)
    /\ epc' = "invoked"
    /\ UNCHANGED <<variant, seq, req_len, start, pattern>>
    /\ UNCHANGED <<sweep_vars, analysis_vars, main_vars>>

----------------------------------------------------------------------------
(* The analyses over the size sweep's table (SpecAnalysis) *)

\* The times a table entry may hold: what run_algorithm can return.
TimeVals == {Fin(0), Fin(12), Fin(120), NaN}

\* A series as the size sweep builds it: m[i] is the time recorded at
\* AnalysisSizes[i], or None when that run failed and left no entry.
SeriesOf(m) ==
    LET idx == SelectSeq([i \in 1..Len(AnalysisSizes) |-> i], LAMBDA i : m[i] # None)
    IN  [xs |-> [j \in 1..Len(idx) |-> AnalysisSizes[idx[j]]],
         times |-> [j \in 1..Len(idx) |-> m[idx[j]]]]

\* list.index(x): the first position of x (0-based in Python, 1-based here).
Index(s, x) == CHOOSE i \in 1..Len(s) : s[i] = x /\ \A j \in 1..(i - 1) : s[j] # x
Contains(s, x) == \E i \in 1..Len(s) : s[i] = x

\* Mutant: only the baseline's time is tested.
SpeedupGuardNaiveOnly(naive_time, time) == GtZero(naive_time)

\* Line 258: "if naive_times[naive_idx] > 0 and data["times"][i] > 0".
SpeedupGuard(naive_time, time) == GtZero(naive_time) /\ GtZero(time)

\* Lines 252-261: the (size, speedup) pairs of one algorithm; the quotient is
\* kept as numerator and denominator.
RECURSIVE SpeedupLoop(_, _, _, _)
SpeedupLoop(naive, data, i, acc) ==
    IF i > Len(data.xs) THEN acc
    ELSE LET size == data.xs[i]
         IN  IF Contains(naive.xs, size)
                  /\ SpeedupGuard(naive.times[Index(naive.xs, size)], data.times[i])
             THEN SpeedupLoop(naive, data, i + 1,
                      Append(acc, [size |-> size,
                                   num |-> naive.times[Index(naive.xs, size)],
                                   den |-> data.times[i]]))
             ELSE SpeedupLoop(naive, data, i + 1, acc)

\* Float division raises ZeroDivisionError on a zero divisor.
DivisionRaises(pairs) == \E i \in 1..Len(pairs) : pairs[i].den = Fin(0)

\* plot_speedup_comparison.
PlotSpeedup ==
    /\ apc = "speedup"
    /\ LET naive == aresults[NAIVE]
           computed == [a \in AlgoIds |->
                          IF a = NAIVE \/ aresults[a].times = <<>> THEN <<>>
                          ELSE SpeedupLoop(naive, aresults[a], 1, <<>>)]
       IN  IF naive.times = <<>>
           THEN sp_status' = "skipped" /\ UNCHANGED speedups
           ELSE IF \E a \in AlgoIds : DivisionRaises(computed[a])
           THEN sp_status' = "error" /\ UNCHANGED speedups
           ELSE sp_status' = "plotted" /\ speedups' = computed
    /\ apc' = "complexity"
    /\ UNCHANGED <<aresults, fit_input, fit_done, table>>
    /\ UNCHANGED <<sweep_vars, embed_vars, main_vars>>

\* The algorithms of plot_configs (Suffix Array, 5, has no panel).
plot_configs == <<15, 3, 4, 11, 12, 6>>

\* Lines 300-311: polyfit gets every point of a series that has more than one.
FitCalled(data) == data.times # <<>> /\ data.xs # <<>> /\ Len(data.xs) > 1

\* plot_complexity_verification.
PlotComplexity ==
    /\ apc = "complexity"
    /\ fit_done' = [a \in AlgoIds |-> Contains(plot_configs, a) /\ FitCalled(aresults[a])]
    /\ fit_input' = [a \in AlgoIds |->
                       IF Contains(plot_configs, a) /\ FitCalled(aresults[a])
                       THEN aresults[a] ELSE EmptySeries]
    /\ apc' = "table"
    /\ UNCHANGED <<aresults, speedups, sp_status, table>>
    /\ UNCHANGED <<sweep_vars, embed_vars, main_vars>>

\* Line 343: the size whose times the table shows.
target_size == 100000

\* f"{t:.3f}" on the times of the model (whole milliseconds, nan, inf).
Format3(t) ==
    CASE t = Fin(0)   -> "0.000"
      [] t = Fin(12)  -> "12.000"
      [] t = Fin(120) -> "120.000"
      [] t = Fin(-5)  -> "-5.000"
      [] t = NaN      -> "nan"
      [] t = PosInf   -> "inf"

\* float(time_val) on the texts Format3 writes.
ParseFormatted(s) ==
    CASE s = "0.000"   -> Fin(0)
      [] s = "12.000"  -> Fin(12)
      [] s = "120.000" -> Fin(120)
      [] s = "-5.000"  -> Fin(-5)
      [] s = "nan"     -> NaN
      [] s = "inf"     -> PosInf
      [] OTHER         -> ValueError

\* Truth value of a float or None: None and 0.0 are false, all else (nan and
\* negative numbers too) is true.
Truthy(x) == x # None /\ x # Fin(0)

\* A speedup cell: a number with two decimals, kept in hundredths ("10.00x"
\* is Shown(1000)), or the text float formatting gives nan and inf.
Shown(h) == [k |-> "num", h |-> h]
ShownNaN == [k |-> "nan", h |-> 0]
ShownInf == [k |-> "inf", h |-> 0]
NoCell == [k |-> "none", h |-> 0]

\* Lines 369-370: f"{num / den:.2f}x" for den > 0, rounded to the nearest
\* hundredth.
Format2x(num, den) ==
    CASE num.k = "nan" \/ den.k = "nan"   -> ShownNaN
      [] num.k = "inf" /\ den.k = "inf"   -> ShownNaN
      [] num.k = "inf"                     -> ShownInf
      [] den.k = "inf"                     -> Shown(0)
      [] OTHER -> Shown((200 * num.v + den.v) \div (2 * den.v))

\* Lines 344-349: the baseline's time at target_size, or None.
BaselineTime(res) ==
    IF Contains(res[NAIVE].xs, target_size)
    THEN res[NAIVE].times[Index(res[NAIVE].xs, target_size)]
    ELSE None

\* Lines 354-357: the time cell of one algorithm.
TimeCell(data) ==
    IF Contains(data.xs, target_size)
    THEN Format3(data.times[Index(data.xs, target_size)])
    ELSE "N/A"

\* Lines 364-370: the speedup cell; "1.00x" unless a quotient is taken.
SpeedupCell(baseline_time, time_val) ==
    IF Truthy(baseline_time) /\ time_val # "N/A"
          /\ GtZero(ParseFormatted(time_val))
    THEN Format2x(baseline_time, ParseFormatted(time_val))
    ELSE Shown(100)

\* generate_latex_table: one row per algorithm.
GenerateLatexTable ==
    /\ apc = "table"
    /\ table' = [a \in AlgoIds |->
                   [time_val |-> TimeCell(aresults[a]),
                    speedup |-> SpeedupCell(BaselineTime(aresults), TimeCell(aresults[a]))]]
    /\ apc' = "done"
    /\ UNCHANGED <<aresults, speedups, sp_status, fit_input, fit_done>>
    /\ UNCHANGED <<sweep_vars, embed_vars, main_vars>>

----------------------------------------------------------------------------
(* A full run: main() of comprehensive_benchmark.py.  Every step either     *)
(* returns or raises; nothing in main catches, so a raise ends the run.     *)

\* The artifacts main writes after the sweeps, in order (lines 441-462).
REPORTS == <<"performance_comparison", "pattern_length_impact", "memory_usage",
             "speedup_comparison", "complexity_verification",
             "performance_table", "benchmark_data">>

\* setup_directories: makedirs of TEMP_DIR, then of OUTPUT_DIR, each only when
\* missing; either may raise OSError.
SetupDirectories ==
    /\ mpc = "setup"
    /\ \E outcome \in {"ok", "temp_raises", "output_raises"} :
          /\ temp_dir' = (temp_dir \/ outcome # "temp_raises")
          /\ mpc' = IF outcome = "ok" THEN "make" ELSE "aborted"
    /\ UNCHANGED <<mi, temp_files, pending, remove_failed, completed>>
    /\ UNCHANGED <<sweep_vars, embed_vars, analysis_vars>>

\* Line 429: subprocess.run(["make"], check=True) raises CalledProcessError on
\* a non-zero exit.
Compile ==
    /\ mpc = "make"
    /\ \E rc \in {0, 2} :
          IF rc = 0 THEN mpc' = "size_sweep" /\ mi' = 1
                    ELSE mpc' = "aborted" /\ UNCHANGED mi
    /\ UNCHANGED <<temp_dir, temp_files, pending, remove_failed, completed>>
    /\ UNCHANGED <<sweep_vars, embed_vars, analysis_vars>>

\* Lines 81-84: one iteration of the size sweep writes seq_<size>.fasta.  A
\* failed open leaves no file; a failed write leaves a partial one.  The runs
\* of the iteration cannot raise (run_algorithm catches everything).
WriteSizeCorpus ==
    /\ mpc = "size_sweep" /\ mi <= Len(SIZES)
    /\ \E outcome \in {"ok", "open_raises", "write_raises"} :
          /\ temp_files' = IF outcome = "open_raises" THEN temp_files
                           ELSE temp_files \cup {SIZES[mi]}
          /\ IF outcome = "ok" THEN mi' = mi + 1 /\ UNCHANGED mpc
                               ELSE mpc' = "aborted" /\ UNCHANGED mi
    /\ UNCHANGED <<temp_dir, pending, remove_failed, completed>>
    /\ UNCHANGED <<sweep_vars, embed_vars, analysis_vars>>

\* Line 104: the size sweep returns.
SizeSweepReturn ==
    /\ mpc = "size_sweep" /\ mi > Len(SIZES)
    /\ mpc' = "plen_sweep"
    /\ UNCHANGED <<mi, temp_dir, temp_files, pending, remove_failed, completed>>
    /\ UNCHANGED <<sweep_vars, embed_vars, analysis_vars>>

\* Lines 115-118: the pattern-length sweep writes seq_100000.fasta once.
WritePlenCorpus ==
    /\ mpc = "plen_sweep"
    /\ \E outcome \in {"ok", "open_raises", "write_raises"} :
          /\ temp_files' = IF outcome = "open_raises" THEN temp_files
                           ELSE temp_files \cup {DEFAULT_TEXT_SIZE}
          /\ IF outcome = "ok" THEN mpc' = "reports" /\ mi' = 1
                               ELSE mpc' = "aborted" /\ UNCHANGED mi
    /\ UNCHANGED <<temp_dir, pending, remove_failed, completed>>
    /\ UNCHANGED <<sweep_vars, embed_vars, analysis_vars>>

\* Lines 441-462: one plot, table or CSV step; it may raise.
Report ==
    /\ mpc = "reports" /\ mi <= Len(REPORTS)
    /\ \E ok \in BOOLEAN :
          IF ok THEN mi' = mi + 1
                     /\ mpc' = IF mi = Len(REPORTS) THEN "cleanup" ELSE "reports"
                ELSE mpc' = "aborted" /\ UNCHANGED mi
    /\ UNCHANGED <<temp_dir, temp_files, pending, remove_failed, completed>>
    /\ UNCHANGED <<sweep_vars, embed_vars, analysis_vars>>

\* Lines 415-416: cleanup tests that TEMP_DIR exists and lists it.
CleanupList ==
    /\ mpc = "cleanup"
    /\ IF temp_dir THEN pending' = temp_files /\ mpc' = "remove"
                   ELSE UNCHANGED pending /\ mpc' = "message"
    /\ UNCHANGED <<mi, temp_dir, temp_files, remove_failed, completed>>
    /\ UNCHANGED <<sweep_vars, embed_vars, analysis_vars>>

\* Lines 416-417: os.remove of the next listed file (the listing's order is
\* arbitrary); an OSError leaves cleanup and main.
CleanupRemove ==
    /\ mpc = "remove" /\ pending # {}
    /\ \E f \in pending : \E ok \in BOOLEAN :
          IF ok THEN /\ temp_files' = temp_files \ {f}
                     /\ pending' = pending \ {f}
                     /\ UNCHANGED <<mpc, remove_failed>>
                ELSE /\ remove_failed' = TRUE
                     /\ mpc' = "aborted"
                     /\ UNCHANGED <<temp_files, pending>>
    /\ UNCHANGED <<mi, temp_dir, completed>>
    /\ UNCHANGED <<sweep_vars, embed_vars, analysis_vars>>

\* Line 418: os.rmdir(TEMP_DIR).
CleanupRmdir ==
    /\ mpc = "remove" /\ pending = {}
    /\ \E ok \in BOOLEAN :
          IF ok /\ temp_files = {}
          THEN temp_dir' = FALSE /\ mpc' = "message"
          ELSE mpc' = "aborted" /\ UNCHANGED temp_dir
    /\ UNCHANGED <<mi, temp_files, pending, remove_failed, completed>>
    /\ UNCHANGED <<sweep_vars, embed_vars, analysis_vars>>

\* Lines 467-479: the closing messages.
PrintComplete ==
    /\ mpc = "message"
    /\ completed' = TRUE
    /\ mpc' = "done"
    /\ UNCHANGED <<mi, temp_dir, temp_files, pending, remove_failed>>
    /\ UNCHANGED <<sweep_vars, embed_vars, analysis_vars>>

----------------------------------------------------------------------------
(* Specifications *)

EmbedIdle ==
    /\ variant = "idle" /\ seq = <<>> /\ req_len = 0 /\ start = 0
    /\ pattern = <<>> /\ epc = "idle"

AnalysisIdle ==
    /\ aresults = [a \in AlgoIds |-> EmptySeries]
    /\ speedups = [a \in AlgoIds |-> <<>>]
    /\ sp_status = "none"
    /\ fit_input = [a \in AlgoIds |-> EmptySeries]
    /\ fit_done = [a \in AlgoIds |-> FALSE]
    /\ table = [a \in AlgoIds |-> [time_val |-> "", speedup |-> NoCell]]
    /\ apc = "idle"

SweepInit ==
    /\ mode \in {"size", "plen", "runner"}
    /\ pattern_len \in (IF mode = "size" THEN {DEFAULT_PATTERN_LEN, SHIFT_OR_MAX, SHIFT_OR_MAX + 1} ELSE {DEFAULT_PATTERN_LEN})
    /\ text_size \in (IF mode = "plen" THEN {DEFAULT_TEXT_SIZE, 50} ELSE {DEFAULT_TEXT_SIZE})
    /\ pc = "outer" /\ ci = 0 /\ ai = 0
    /\ results = [a \in AlgoIds |-> EmptySeries]
    /\ bresults = [a \in AlgoIds |-> <<>>]
    /\ calls = <<>>
    /\ last = NoOutcome
    /\ faults = 0

MainIdle ==
    /\ mpc = "idle" /\ mi = 0 /\ temp_dir = FALSE /\ temp_files = {}
    /\ pending = {} /\ remove_failed = FALSE /\ completed = FALSE

Init == SweepInit /\ EmbedIdle /\ AnalysisIdle /\ MainIdle

Next ==
    \/ TextSizeNext
    \/ TextSizeSkip
    \/ TextSizeRun
    \/ TextSizeReturn
    \/ PatternLenNext
    \/ PatternLenSkip
    \/ PatternLenRun
    \/ PatternLenReturn
    \/ RunnerNext
    \/ RunnerRun
    \/ RunnerReturn

Spec == Init /\ [][Next]_vars

SweepIdle ==
    /\ mode = "idle" /\ pattern_len = DEFAULT_PATTERN_LEN /\ text_size = DEFAULT_TEXT_SIZE
    /\ pc = "idle" /\ ci = 0 /\ ai = 0
    /\ results = [a \in AlgoIds |-> EmptySeries]
    /\ bresults = [a \in AlgoIds |-> <<>>]
    /\ calls = <<>>
    /\ last = NoOutcome
    /\ faults = 0

InitEmbed ==
    /\ variant \in {"size", "plen"}
    /\ seq \in Texts(MaxLen)
    /\ req_len \in 1..(MaxLen + 1)
    /\ start = 0
    /\ pattern = <<>>
    /\ epc = "ready"
    /\ SweepIdle /\ AnalysisIdle /\ MainIdle

NextEmbed ==
    \/ TextSizeEmbed
    \/ PatternLenEmbed
    \/ PatternLenEmbedRaises
    \/ EmbedInvoke

SpecEmbed == InitEmbed /\ [][NextEmbed]_vars

\* The tables: a series for the baseline and one for another algorithm, the
\* rest empty (all their runs failed).
AnalysisTargets == {3, 5}
SeriesChoices == {SeriesOf(m) : m \in [1..Len(AnalysisSizes) -> TimeVals \cup {None}]}

InitAnalysis ==
    /\ \E tgt \in AnalysisTargets : \E nv \in SeriesChoices : \E dt \in SeriesChoices :
          aresults = [a \in AlgoIds |->
                        IF a = NAIVE THEN nv ELSE IF a = tgt THEN dt ELSE EmptySeries]
    /\ speedups = [a \in AlgoIds |-> <<>>]
    /\ sp_status = "none"
    /\ fit_input = [a \in AlgoIds |-> EmptySeries]
    /\ fit_done = [a \in AlgoIds |-> FALSE]
    /\ table = [a \in AlgoIds |-> [time_val |-> "", speedup |-> NoCell]]
    /\ apc = "speedup"
    /\ SweepIdle /\ EmbedIdle /\ MainIdle

NextAnalysis ==
    \/ PlotSpeedup
    \/ PlotComplexity
    \/ GenerateLatexTable

SpecAnalysis == InitAnalysis /\ [][NextAnalysis]_vars

\* A run starts with TEMP_DIR missing, or left behind by an earlier run,
\* empty or with that run's first corpus file.
InitMain ==
    /\ mpc = "setup" /\ mi = 0
    /\ temp_dir \in BOOLEAN
    /\ temp_files \in (IF temp_dir THEN {{}, {SIZES[1]}} ELSE {{}})
    /\ pending = {}
    /\ remove_failed = FALSE
    /\ completed = FALSE
    /\ SweepIdle /\ EmbedIdle /\ AnalysisIdle

NextMain ==
    \/ SetupDirectories
    \/ Compile
    \/ WriteSizeCorpus
    \/ SizeSweepReturn
    \/ WritePlenCorpus
    \/ Report
    \/ CleanupList
    \/ CleanupRemove
    \/ CleanupRmdir
    \/ PrintComplete

SpecMain == InitMain /\ [][NextMain]_vars

----------------------------------------------------------------------------
(* Claims about the sweeps, checked under Spec *)

Comprehensive == mode \in {"size", "plen"}

\* The sweep values a series has entries for.
Sizes(series) == {series.xs[i] : i \in 1..Len(series.xs)}

\* The invocations of one algorithm, and those that returned a time.
CallsOf(a) == SelectSeq(calls, LAMBDA c : c.algo = a)
TimedCallsOf(a) == SelectSeq(calls, LAMBDA c : c.algo = a /\ c.ret # None)

\* C1: in both sweeps of comprehensive_benchmark.py, at every point of the
\* sweep and whatever the runner's outcomes were, each algorithm's list of sweep
\* values and its list of times have the same length, and entry i of both comes
\* from the same invocation: the i-th one of that algorithm that returned a time.
C1_SeriesAligned ==
    Comprehensive =>
        \A a \in AlgoIds :
            LET timed == TimedCallsOf(a)
            IN  /\ Len(results[a].xs) = Len(results[a].times)
                /\ results[a].xs = [i \in 1..Len(timed) |-> timed[i].x]
                /\ results[a].times = [i \in 1..Len(timed) |-> timed[i].ret]

\* A sweep has ended with a failed run in it and times recorded after it.
C1_Witness ==
    /\ Comprehensive /\ pc = "done"
    /\ \E i \in 1..Len(calls) : calls[i].failed
         /\ Len(results[calls[i].algo].xs) = Len(CallsOf(calls[i].algo)) - 1
         /\ Len(results[calls[i].algo].xs) > 1

\* The step that invokes the executable, and the invocation it adds.
Invoked == Len(calls') = Len(calls) + 1
NewCall == calls'[Len(calls')]

ValuesOf(m) ==
    IF m = "size" THEN SweepSizes ELSE IF m = "plen" THEN PATTERN_LENGTHS ELSE RunnerSizes
AlgosOf(m) == IF m = "runner" THEN R_ALGORITHMS ELSE ALGORITHMS
PlenOf(m, pl, x) == IF m = "size" THEN pl ELSE IF m = "plen" THEN x ELSE PATTERN_LEN
SweepValues == ValuesOf(mode)
PlenAt(x) == PlenOf(mode, pattern_len, x)

\* Every (sweep value, algorithm) pair in the configured order.
AllPairs(xs, algos) ==
    [k \in 1..(Len(xs) * Len(algos)) |->
        <<xs[((k - 1) \div Len(algos)) + 1], algos[((k - 1) % Len(algos)) + 1]>>]

\* The pairs whose algorithm applies: all but Shift-Or (6) above length 64.
PairsTable ==
    [m \in {"size", "plen", "runner"}, pl \in {10, 64, 65} |->
        SelectSeq(AllPairs(ValuesOf(m), AlgosOf(m)),
                  LAMBDA p : ~(m # "runner" /\ p[2] = 6 /\ PlenOf(m, pl, p[1]) > 64))]
ApplicablePairs == PairsTable[mode, pattern_len]

CallPairs == [i \in 1..Len(calls) |-> <<calls[i].x, calls[i].algo>>]

IsPrefix(s, t) == Len(s) <= Len(t) /\ s = SubSeq(t, 1, Len(s))

\* C3: whatever runs fail, the executable is invoked once per (sweep value,
\* applicable algorithm) pair in the configured order: the invocations so far
\* are a prefix of that list, the whole list when the sweep returns, and a
\* sweep stops early only where picking the pattern raises (pattern-length
\* sweep, text shorter than the pattern), never after a failed run.
C3_EveryPairInvokedOnce ==
    /\ IsPrefix(CallPairs, ApplicablePairs)
    /\ pc = "done" => CallPairs = ApplicablePairs
    /\ pc = "crashed" =>
          /\ mode = "plen" /\ text_size < PATTERN_LENGTHS[ci]
          /\ Len(calls) = Len(SelectSeq(ApplicablePairs, LAMBDA p : p[1] < PATTERN_LENGTHS[ci]))

\* A sweep has returned although a run before the last pair failed.
C3_Witness ==
    /\ pc = "done"
    /\ \E i \in 1..(Len(calls) - 1) : calls[i].failed /\ ~calls[i + 1].failed

\* C6 as claimed: run_algorithm returns a failure (None) or a finite,
\* non-negative time; a run that exits 0 with negative, nan or infinite output
\* returns no time and none is recorded.
C6_TimeFiniteNonNegative ==
    Comprehensive =>
        /\ \A i \in 1..Len(calls) :
              calls[i].ret = None \/ (calls[i].ret.k = "fin" /\ calls[i].ret.v >= 0)
        /\ \A a \in AlgoIds : \A i \in 1..Len(results[a].times) :
              results[a].times[i].k = "fin" /\ results[a].times[i].v >= 0

\* The calls a sweep without algorithm 6 would make.
WithoutShiftOrTable ==
    [m \in {"size", "plen"} |->
        AllPairs(ValuesOf(m), SelectSeq(ALGORITHMS, LAMBDA a : a # 6))]
PairsWithoutShiftOr == WithoutShiftOrTable[mode]
CallPairsWithoutShiftOr == SelectSeq(CallPairs, LAMBDA p : p[2] # 6)
ShiftOrCalls == SelectSeq(calls, LAMBDA c : c.algo = 6)

\* The sweep values whose inner loop has finished.
FinishedValues ==
    {SweepValues[k] : k \in {j \in 1..Len(SweepValues) :
                               j < ci \/ (j = ci /\ pc \in {"outer", "done"})}}

\* C8: in both sweeps Shift-Or (6) is never invoked and never recorded at a
\* pattern length above 64; the other algorithms are invoked as in a sweep
\* without Shift-Or; at a length of at most 64 Shift-Or is invoked once per
\* sweep value like the others; and every algorithm, Shift-Or included, has an
\* entry exactly for the sweep values at which its run returned a time.
C8_ShiftOrCeiling ==
    Comprehensive =>
        /\ \A i \in 1..Len(ShiftOrCalls) : ShiftOrCalls[i].plen <= 64
        /\ \A i \in 1..Len(results[6].xs) : PlenAt(results[6].xs[i]) <= 64
        /\ IsPrefix(CallPairsWithoutShiftOr, PairsWithoutShiftOr)
        /\ pc = "done" => CallPairsWithoutShiftOr = PairsWithoutShiftOr
        /\ \A x \in FinishedValues :
              Cardinality({i \in 1..Len(ShiftOrCalls) : ShiftOrCalls[i].x = x})
                = IF PlenAt(x) <= 64 THEN 1 ELSE 0
        /\ \A a \in AlgoIds :
              Sizes(results[a]) = {calls[i].x : i \in {j \in 1..Len(calls) :
                                      calls[j].algo = a /\ calls[j].ret # None}}

\* A pattern-length sweep has returned: Shift-Or ran at 50, not at 100, and
\* the algorithms after it in the catalogue ran at 100.
C8_Witness ==
    /\ mode = "plen" /\ pc = "done"
    /\ \E i \in 1..Len(calls) : calls[i].algo = 6 /\ calls[i].x = 50
    /\ ~\E i \in 1..Len(calls) : calls[i].algo = 6 /\ calls[i].x = 100
    /\ \E i \in 1..Len(calls) : calls[i].algo = 12 /\ calls[i].x = 100

\* C10 as claimed: in every sweep of the repository the value recorded for a
\* failed run is a failure marker, never the number 0.
C10_FailureNeverZero ==
    /\ \A i \in 1..Len(calls) : calls[i].failed => calls[i].ret # Fin(0)
    /\ \A a \in AlgoIds :
          Len(SelectSeq(bresults[a], LAMBDA t : t = Fin(0)))
            <= Len(SelectSeq(calls, LAMBDA c : c.algo = a /\ ~c.failed /\ c.ret = Fin(0)))

----------------------------------------------------------------------------
(* Claims about the pattern, checked under SpecEmbed *)

\* C4: when the requested length is at most the text's length, picking the
\* pattern never raises, the offsets drawn from are exactly 0..(size - length)
\* (0..40 for size 50 and length 10), and the pattern picked has the requested
\* length and is the text at the chosen offset.
C4_PatternIsSubstring ==
    /\ EmbedStarts("size", 50, 10) = 0..40
    /\ EmbedStarts("plen", 50, 10) = 0..40
    /\ req_len <= Len(seq) =>
          /\ EmbedStarts(variant, Len(seq), req_len) = 0..(Len(seq) - req_len)
          /\ epc # "raised"
          /\ epc \in {"embedded", "invoked"} =>
                /\ Len(pattern) = req_len
                /\ start \in 0..(Len(seq) - req_len)
                /\ \A i \in 1..req_len : pattern[i] = seq[start + i]

\* A pattern shorter than the text was taken at the last possible offset and
\* handed to the executable.
C4_Witness ==
    /\ epc = "invoked"
    /\ req_len >= 2 /\ req_len < Len(seq)
    /\ start = Len(seq) - req_len
    /\ pattern # SubSeq(seq, 1, req_len)

\* C5 as claimed: when the requested length exceeds the text's length, picking
\* the pattern fails in both sweeps: no pattern is returned (none shorter than
\* requested) and the executable is not run with one.
C5_TooLongPatternRejected ==
    req_len > Len(seq) => epc \in {"ready", "raised"}

----------------------------------------------------------------------------
(* Claims about the analyses, checked under SpecAnalysis *)

\* A strictly positive time (a positive number, or +inf).
Positive(t) == t \notin {NaN, None} /\ (t = PosInf \/ t.v > 0)
TimeAt(series, size) == series.times[CHOOSE i \in 1..Len(series.xs) : series.xs[i] = size]

\* The sizes the claim lets into the speedup series of algorithm a.
InBothAndPositive(a, size) ==
    /\ size \in Sizes(aresults[NAIVE]) /\ size \in Sizes(aresults[a])
    /\ Positive(TimeAt(aresults[NAIVE], size))
    /\ Positive(TimeAt(aresults[a], size))

\* C7: once the speedup analysis has run, no division by zero has happened;
\* with an empty baseline there is no result and no error; otherwise each
\* algorithm's speedup series holds, in the order of its own series, exactly
\* the sizes present in both series with both times strictly positive, each
\* with the quotient baseline time / algorithm time.
C7_SpeedupExactlyMatchedPositive ==
    apc # "speedup" =>
        /\ sp_status # "error"
        /\ aresults[NAIVE].times = <<>> =>
              sp_status = "skipped" /\ \A a \in AlgoIds : speedups[a] = <<>>
        /\ aresults[NAIVE].times # <<>> =>
              /\ sp_status = "plotted"
              /\ speedups[NAIVE] = <<>>
              /\ \A a \in AlgoIds \ {NAIVE} :
                    /\ [i \in 1..Len(speedups[a]) |-> speedups[a][i].size]
                         = SelectSeq(aresults[a].xs, LAMBDA size : InBothAndPositive(a, size))
                    /\ \A i \in 1..Len(speedups[a]) :
                          /\ speedups[a][i].num = TimeAt(aresults[NAIVE], speedups[a][i].size)
                          /\ speedups[a][i].den = TimeAt(aresults[a], speedups[a][i].size)
                          /\ speedups[a][i].den # Fin(0)

\* The analysis has produced 120/12 at one size and left out a size the
\* baseline lacks and a size where the algorithm's time is 0.
C7_Witness ==
    /\ apc = "done" /\ sp_status = "plotted"
    /\ \E a \in AlgoIds \ {NAIVE} :
          /\ Len(speedups[a]) = 1
          /\ speedups[a][1].num = Fin(120) /\ speedups[a][1].den = Fin(12)
          /\ \E i \in 1..Len(aresults[a].xs) : aresults[a].xs[i] \notin Sizes(aresults[NAIVE])
          /\ \E i \in 1..Len(aresults[a].xs) :
                aresults[a].xs[i] \in Sizes(aresults[NAIVE]) /\ aresults[a].times[i] = Fin(0)

\* The points of a series usable for a log-log fit.
Usable(series) ==
    {i \in 1..Len(series.xs) : series.xs[i] > 0 /\ Positive(series.times[i])}

\* C9 as claimed: a fit is computed only from points with strictly positive
\* size and time and only when there are at least 2 of them; with fewer no
\* fit is made, and no point with a zero time enters the regression.
C9_FitOnlyFromPositivePoints ==
    apc = "done" =>
        \A a \in AlgoIds :
            /\ fit_done[a] => Cardinality(Usable(aresults[a])) >= 2
            /\ Cardinality(Usable(aresults[a])) < 2 => ~fit_done[a]
            /\ \A i \in 1..Len(fit_input[a].times) : Positive(fit_input[a].times[i])

\* h is num / den in hundredths, to the nearest.
IsQuotient(h, num, den) ==
    LET d == 100 * num.v - h * den.v
    IN  2 * d <= den.v /\ 2 * d >= -den.v

\* C12 as claimed: in the results table the speedup cell of an algorithm
\* shows a number exactly when the baseline's and the algorithm's times at
\* the reference size (100000) are both recorded and strictly positive, and
\* the number is then baseline time / algorithm time (120.0 / 12.0 gives
\* 10.00); when the baseline has no sample there, or either time is absent
\* or zero, the cell shows no numeric speedup.
C12_SpeedupCellOnlyFromPositiveTimes ==
    apc = "done" =>
        \A a \in AlgoIds :
            IF InBothAndPositive(a, target_size)
            THEN /\ table[a].speedup.k = "num"
                 /\ IsQuotient(table[a].speedup.h,
                               TimeAt(aresults[NAIVE], target_size),
                               TimeAt(aresults[a], target_size))
            ELSE table[a].speedup.k # "num"

----------------------------------------------------------------------------
(* Claims about a full run, checked under SpecMain *)

\* The run has ended: main returned or an exception left it.
Ended == mpc \in {"done", "aborted"}

\* C11: however a full run ends (a failed build step, a corpus-file write
\* error and an error in a report step included), the scratch directory and
\* its corpus files are gone when it ends; and a scratch file that cannot be
\* removed does not abort the run: the run still ends with the completion
\* message.
C11_ScratchRemovedOnEveryExit ==
    /\ Ended => ~temp_dir /\ temp_files = {}
    /\ remove_failed => mpc # "aborted"
    /\ (Ended /\ remove_failed) => completed

====
